---- MODULE Spec2Model ----
(***************************************************************************)
(* A model of ml::ann (MachineLearning.h): the activation functions, the   *)
(* Input tagged value, Neuron, NeuralLayer and NeuralNetwork.              *)
(*                                                                         *)
(* Numbers are integers (exact arithmetic), so only the activation kinds   *)
(* that map integers to integers are modelled.  A pointer to a neuron's    *)
(* output (Neuron::output(), &y) is the neuron's index in the heap         *)
(* `neurons`; NULL is the null pointer.                                    *)
(***************************************************************************)
EXTENDS Integers, Sequences, FiniteSets, TLC

VARIABLES
  neurons,   \* the heap: neuron id -> Neuron object
  layers,    \* the network's layers, each the sequence of its neurons' ids
  status,    \* "running", or "crashed" after a fatal memory fault
  last,      \* the last call made: [op, args, ret]
  hist,      \* history of the single neuron's update_backward calls
  par,       \* an any-order execution of a layer call's per-neuron steps
  ctor,      \* the last NeuralLayer construction: arguments and outcome
  phiCall    \* the last evaluation of phi / phi_diff

vars == <<neurons, layers, status, last, hist, par, ctor, phiCall>>

(***************************************************************************)
(* Bounds of the model.                                                    *)
(***************************************************************************)
MaxAbs == 4
MaxSignal == 1
MaxOps == 3
MaxParam == 2
MaxRows == 2

NULL == 0

Range(s) == {s[i] : i \in DOMAIN s}

Abs(v) == IF v < 0 THEN -v ELSE v

Max(u, v) == IF u < v THEN v ELSE u

(***************************************************************************)
(* stlutils (StlUtils.h): the vector helpers MachineLearning.h calls, by    *)
(* the meaning of their names.                                             *)
(***************************************************************************)
RECURSIVE dot(_, _)
dot(x, w) ==
  IF Len(x) = 0 \/ Len(w) = 0 THEN 0
  ELSE Head(x) * Head(w) + dot(Tail(x), Tail(w))

mult_scalar(v, s) == [i \in 1..Len(v) |-> v[i] * s]

add(u, v) == [i \in 1..Len(u) |-> u[i] + v[i]]

add_scalar(v, s) == [i \in 1..Len(v) |-> v[i] + s]

(***************************************************************************)
(* Activation functions.                                                   *)
(***************************************************************************)
PhiType == {"BinaryStep", "Heaviside_BinaryStep", "Linear", "ReLU",
            "Parametric_ReLU", "Parametric_Leaky_ReLU"}

\* z < -l/k in IEEE arithmetic: -l/k is +-infinity or NaN when k = 0.
LessThanNegQuot(z, l, k) ==
  IF k > 0 THEN k * z < -l
  ELSE IF k < 0 THEN k * z > -l
  ELSE l < 0

phi_mut_relu(z, type, a, k, l) ==
  CASE type = "BinaryStep" -> IF z < 0 THEN 0 ELSE 1
    [] type = "Heaviside_BinaryStep" -> IF z <= 0 THEN 0 ELSE 1
    [] type = "Linear" -> z
    [] type = "ReLU" -> Max(0, z)
    [] type = "Parametric_ReLU" -> Max(0, z)
    [] type = "Parametric_Leaky_ReLU" -> Max(a * (k * z + l), k * z + l)

phi(z, type, a, k, l) ==
  CASE type = "BinaryStep" -> IF z < 0 THEN 0 ELSE 1
    [] type = "Heaviside_BinaryStep" -> IF z <= 0 THEN 0 ELSE 1
    [] type = "Linear" -> z
    [] type = "ReLU" -> Max(0, z)
    [] type = "Parametric_ReLU" -> Max(0, k * z + l)
    [] type = "Parametric_Leaky_ReLU" -> Max(a * (k * z + l), k * z + l)

phi_diff(z, type, a, k, l) ==
  CASE type = "BinaryStep" -> 0
    [] type = "Heaviside_BinaryStep" -> 0
    [] type = "Linear" -> 1
    [] type = "ReLU" -> IF z < 0 THEN 0 ELSE 1
    [] type = "Parametric_ReLU" -> IF LessThanNegQuot(z, l, k) THEN 0 ELSE k
    [] type = "Parametric_Leaky_ReLU" ->
         IF LessThanNegQuot(z, l, k) THEN a * k ELSE k

(***************************************************************************)
(* class Input.  A std::optional<float> is <<>> or <<v>>.                  *)
(***************************************************************************)
Input_default == [perceptron_signal |-> 0, dendrite_output |-> NULL, set |-> FALSE]

Input_signal(signal) ==
  [perceptron_signal |-> signal, dendrite_output |-> NULL, set |-> TRUE]

Input_output(output) ==
  [perceptron_signal |-> 0, dendrite_output |-> output, set |-> TRUE]

Input_get(in, heap) ==
  IF ~in.set THEN <<>>
  ELSE IF in.dendrite_output # NULL THEN <<heap[in.dendrite_output].y>>
  ELSE <<in.perceptron_signal>>

has_value(o) == Len(o) = 1

value_or(o, d) == IF Len(o) = 1 THEN o[1] ELSE d

(***************************************************************************)
(* class Neuron.  The shape parameters are rationals <<num, den>>: the     *)
(* default l is 1.1f.  The neurons of the model use kinds that do not read *)
(* them.                                                                   *)
(***************************************************************************)
Neuron_ctor(w, b, af_type) ==
  [Nw |-> Len(w), inputs |-> <<>>, weights |-> w, bias |-> b, z |-> 0,
   phi_type |-> af_type,
   phi_param_a |-> <<1, 1>>, phi_param_k |-> <<1, 1>>, phi_param_l |-> <<11, 10>>,
   y |-> 0,
   w_diff_prev |-> [i \in 1..Len(w) |-> 0], b_diff_prev |-> 0]

\* inputs[i] is readable for every i < Nw; otherwise the reads fault.
Neuron_inputs_readable(n) == Len(n.inputs) >= n.Nw

\* A rebinding that also clears the momentum memory.
Neuron_set_inputs_reset(n, x) ==
  [n EXCEPT !.inputs = x, !.w_diff_prev = [i \in 1..n.Nw |-> 0], !.b_diff_prev = 0]

Neuron_set_inputs(n, x) == [n EXCEPT !.inputs = x]

Neuron_set_phi_params(n, a, k, l) ==
  [n EXCEPT !.phi_param_a = a, !.phi_param_k = k, !.phi_param_l = l]

\* A gather that keeps the weights of the unset slots.
RECURSIVE forward_gather_unaligned(_, _, _, _)
forward_gather_unaligned(n, heap, i, xw) ==
  IF i > n.Nw THEN xw
  ELSE LET ival == Input_get(n.inputs[i], heap)
       IN  forward_gather_unaligned(n, heap, i + 1,
             [x |-> IF has_value(ival) THEN Append(xw.x, ival[1]) ELSE xw.x,
              w |-> Append(xw.w, n.weights[i])])

\* The loop of update_forward from slot i on: the gathered x and w.
RECURSIVE forward_gather(_, _, _, _)
forward_gather(n, heap, i, xw) ==
  IF i > n.Nw THEN xw
  ELSE LET ival == Input_get(n.inputs[i], heap)
       IN  forward_gather(n, heap, i + 1,
             IF has_value(ival)
               THEN [x |-> Append(xw.x, ival[1]), w |-> Append(xw.w, n.weights[i])]
               ELSE xw)

\* The neuron `id` of `heap` after update_forward; the value returned is its y.
Neuron_update_forward(heap, id) ==
  LET n == heap[id]
      xw == forward_gather(n, heap, 1, [x |-> <<>>, w |-> <<>>])
      z == dot(xw.x, xw.w) + n.bias
  IN  [n EXCEPT !.z = z,
                !.y = phi(z, n.phi_type, n.phi_param_a, n.phi_param_k, n.phi_param_l)]

\* dz/dw: the inputs as update_backward reads them, an unset one as 0.
Neuron_dz_dw_unset_one(heap, id) ==
  [i \in 1..heap[id].Nw |-> value_or(Input_get(heap[id].inputs[i], heap), 1)]

Neuron_dz_dw(heap, id) ==
  [i \in 1..heap[id].Nw |-> value_or(Input_get(heap[id].inputs[i], heap), 0)]

\* diff = eta * (-grad + mu * diff_prev + r), for the weights.
Neuron_w_diff(dC_dw, w_diff_prev, eta, mu, r) ==
  mult_scalar(
    add_scalar(add(mult_scalar(dC_dw, -1), mult_scalar(w_diff_prev, mu)), r),
    eta)

\* A store that forgets to keep the deltas for the next call.
Neuron_backward_store_stale(n, w_diff, b_diff) ==
  [n EXCEPT !.weights = add(n.weights, w_diff),
            !.bias = n.bias + b_diff]

\* The writes of update_backward.
Neuron_backward_store(n, w_diff, b_diff) ==
  [n EXCEPT !.weights = add(n.weights, w_diff),
            !.bias = n.bias + b_diff,
            !.w_diff_prev = w_diff,
            !.b_diff_prev = b_diff]

\* The neuron `id` of `heap` after update_backward, and the gradient returned.
Neuron_update_backward(heap, id, y_trg, eta, mu, r) ==
  LET n == heap[id]
      err_diff == -(y_trg - n.y)
      dC_df == err_diff
      df_dz == phi_diff(n.z, n.phi_type, n.phi_param_a, n.phi_param_k, n.phi_param_l)
      dz_dw == Neuron_dz_dw(heap, id)
      dz_db == 1
      dC_dz == dC_df * df_dz
      dC_dw == mult_scalar(dz_dw, dC_dz)
      dC_db == dC_dz * dz_db
      w_diff == Neuron_w_diff(dC_dw, n.w_diff_prev, eta, mu, r)
      b_diff == eta * (-dC_db + mu * n.b_diff_prev + r)
  IN  [neuron |-> Neuron_backward_store(n, w_diff, b_diff), grad |-> dC_dw]

\* train: update_forward, then update_backward on the result.
Neuron_train(heap, id, y_trg, eta, mu, r) ==
  Neuron_update_backward([heap EXCEPT ![id] = Neuron_update_forward(heap, id)],
                         id, y_trg, eta, mu, r)

(***************************************************************************)
(* Bounding: every number a neuron holds stays within MaxAbs.              *)
(***************************************************************************)
NeuronInRange(n) ==
  /\ \A i \in 1..n.Nw : Abs(n.weights[i]) <= MaxAbs /\ Abs(n.w_diff_prev[i]) <= MaxAbs
  /\ Abs(n.bias) <= MaxAbs /\ Abs(n.b_diff_prev) <= MaxAbs
  /\ Abs(n.z) <= MaxAbs /\ Abs(n.y) <= MaxAbs

HeapInRange(heap) == \A id \in DOMAIN heap : NeuronInRange(heap[id])

Signals == 1..MaxSignal

NoCall == [op |-> "none", args |-> <<>>, ret |-> <<>>, log |-> <<>>, n |-> 0]

NoHist == [dw |-> <<>>, db |-> 0, calls |-> 0, used |-> {}, momentum |-> FALSE,
           rzero |-> TRUE, w0 |-> <<>>]

NoPar == [op |-> "none", args |-> <<>>, heap |-> <<>>, pending |-> {},
          grad |-> <<>>, order |-> <<>>]

NoCtor == [result |-> "none"]

NoPhiCall == [type |-> "none"]

(***************************************************************************)
(* A single neuron (id 1) and its caller.                                  *)
(***************************************************************************)
\* The weights the neuron is constructed with, one per input slot.
NeuronW0 == <<1, 2>>

NeuronNw == Len(NeuronW0)

\* What a caller may bind to a slot: nothing, a signal, a null pointer, or
\* the neuron's own output.
NeuronInputs ==
  {Input_default, Input_output(NULL), Input_output(1)}
    \cup {Input_signal(s) : s \in Signals}

NeuronPhiTypes == {"Linear", "ReLU"}

PhiParamChoices == {<<<<1, 1>>, <<1, 1>>, <<11, 10>>>>, <<<<2, 1>>, <<1, 1>>, <<1, 1>>>>}

InitNeuron ==
  /\ \E b \in {0, 1}, t \in NeuronPhiTypes :
       neurons = [id \in {1} |-> Neuron_ctor(NeuronW0, b, t)]
  /\ layers = <<>>
  /\ status = "running"
  /\ last = NoCall
  /\ hist = [NoHist EXCEPT !.dw = [i \in 1..NeuronNw |-> 0],
                           !.w0 = neurons[1].weights]
  /\ par = NoPar
  /\ ctor = NoCtor
  /\ phiCall = NoPhiCall

\* The record of a call: its arguments, the value returned and, for the
\* network's update_backward, the layer calls it made.
CalledLog(op, args, ret, log) ==
  [op |-> op, args |-> args, ret |-> ret, log |-> log, n |-> last.n + 1]

Called(op, args, ret) == CalledLog(op, args, ret, <<>>)

CanCall == status = "running" /\ last.n < MaxOps

NSetInputs ==
  \E len \in 1..NeuronNw : \E x \in [1..len -> NeuronInputs] :
    /\ CanCall
    /\ Len(x) = neurons[1].Nw
    /\ neurons' = [neurons EXCEPT ![1] = Neuron_set_inputs(neurons[1], x)]
    /\ last' = Called("set_inputs", <<>>, <<>>)
    /\ UNCHANGED <<layers, status, hist, par, ctor, phiCall>>

NSetPhiParams ==
  \E p \in PhiParamChoices :
    /\ CanCall
    /\ neurons' = [neurons EXCEPT ![1] = Neuron_set_phi_params(neurons[1], p[1], p[2], p[3])]
    /\ last' = Called("set_phi_params", <<>>, <<>>)
    /\ UNCHANGED <<layers, status, hist, par, ctor, phiCall>>

\* A call that reads inputs[i] before set_inputs faults on the empty vector.
NCrash ==
  /\ CanCall
  /\ ~Neuron_inputs_readable(neurons[1])
  /\ status' = "crashed"
  /\ UNCHANGED <<neurons, layers, last, hist, par, ctor, phiCall>>

NUpdateForward ==
  /\ CanCall
  /\ Neuron_inputs_readable(neurons[1])
  /\ LET n == Neuron_update_forward(neurons, 1)
     IN  /\ NeuronInRange(n)
         /\ neurons' = [neurons EXCEPT ![1] = n]
         /\ last' = Called("update_forward", <<>>, <<n.y>>)
  /\ UNCHANGED <<layers, status, hist, par, ctor, phiCall>>

\* The slots a backward call read a value from.
SlotsSet(heap, id) ==
  {i \in 1..heap[id].Nw : has_value(Input_get(heap[id].inputs[i], heap))}

\* The history after a backward call with arguments a: the deltas it applied
\* (read off the weights and the bias), how many calls there were (up to 2),
\* the slots ever read as set, whether the momentum term was non-zero in this
\* call, whether r was 0 in every call, and the weights at construction.
HistAfter(before, after, heapRead, a) ==
  [dw |-> [i \in 1..NeuronNw |-> after.weights[i] - before.weights[i]],
   db |-> after.bias - before.bias,
   calls |-> IF hist.calls < 2 THEN hist.calls + 1 ELSE 2,
   used |-> hist.used \cup SlotsSet(heapRead, 1),
   momentum |-> \E i \in 1..NeuronNw : a[3] * hist.dw[i] # 0,
   rzero |-> hist.rzero /\ a[4] = 0,
   w0 |-> hist.w0]

\* <<y_trg, eta, mu, r>>
BackwardArgs == {0, 1} \X {1, 2} \X {0, 1} \X {0, 1}

TrainArgs == {<<0, 1, 1, 0>>, <<1, 1, 0, 1>>, <<1, 2, 1, 0>>, <<0, 1, 0, 0>>}

NUpdateBackward ==
  \E a \in BackwardArgs :
    /\ CanCall
    /\ Neuron_inputs_readable(neurons[1])
    /\ LET res == Neuron_update_backward(neurons, 1, a[1], a[2], a[3], a[4])
       IN  /\ NeuronInRange(res.neuron)
           /\ neurons' = [neurons EXCEPT ![1] = res.neuron]
           /\ last' = Called("update_backward", a, res.grad)
           /\ hist' = HistAfter(neurons[1], res.neuron, neurons, a)
    /\ UNCHANGED <<layers, status, par, ctor, phiCall>>

NTrain ==
  \E a \in TrainArgs :
    /\ CanCall
    /\ Neuron_inputs_readable(neurons[1])
    /\ LET fwd == [neurons EXCEPT ![1] = Neuron_update_forward(neurons, 1)]
           res == Neuron_train(neurons, 1, a[1], a[2], a[3], a[4])
       IN  /\ NeuronInRange(res.neuron)
           /\ neurons' = [neurons EXCEPT ![1] = res.neuron]
           /\ last' = Called("train", a, res.grad)
           /\ hist' = HistAfter(neurons[1], res.neuron, fwd, a)
    /\ UNCHANGED <<layers, status, par, ctor, phiCall>>

NextNeuron ==
  \/ NSetInputs
  \/ NSetPhiParams
  \/ NCrash
  \/ NUpdateForward
  \/ NUpdateBackward
  \/ NTrain

SpecNeuron == InitNeuron /\ [][NextNeuron]_vars

(***************************************************************************)
(* Claims about the single neuron, under SpecNeuron.                       *)
(***************************************************************************)
RECURSIVE SumOver(_, _)
SumOver(S, f) ==
  IF S = {} THEN 0
  ELSE LET i == CHOOSE j \in S : TRUE
       IN  f[i] + SumOver(S \ {i}, f)

\* The value bound to a set slot when the call starts.
SlotValue(in, heap) ==
  IF in.dendrite_output # NULL THEN heap[in.dendrite_output].y
  ELSE in.perceptron_signal

\* C1: update_forward computes z as the bias plus the sum of weights[i]*x[i]
\* over exactly the slots whose input is set, stores z and y = phi(z), and
\* returns y.
C1_ForwardSum ==
  [][last'.op = "update_forward" =>
       LET n == neurons[1]
           S == {i \in 1..n.Nw : n.inputs[i].set}
           zz == n.bias
                 + SumOver(S, [i \in 1..n.Nw |->
                                 n.weights[i] * SlotValue(n.inputs[i], neurons)])
       IN  /\ neurons'[1].z = zz
           /\ neurons'[1].y
                = phi(zz, n.phi_type, n.phi_param_a, n.phi_param_k, n.phi_param_l)
           /\ last'.ret = <<neurons'[1].y>>]_vars

\* update_forward has run with the first slot unset and the second set, and
\* the set slot contributed to z.
C1_Witness ==
  /\ last.op = "update_forward"
  /\ ~neurons[1].inputs[1].set
  /\ neurons[1].inputs[2].set
  /\ neurons[1].z = neurons[1].bias + 2
  /\ neurons[1].y = neurons[1].z

\* C2: each backward call changes every weight by
\* eta * (-dC/dw[i] + mu * prev_delta_w[i] + r) and the bias by
\* eta * (-dC/db + mu * prev_delta_b + r), prev_delta being the delta the call
\* before applied (zero before the first), and stores the deltas it applied.
C2_MomentumRule ==
  [][last'.op \in {"update_backward", "train"} =>
       LET n == neurons[1]
           m == neurons'[1]
           y_trg == last'.args[1]
           eta == last'.args[2]
           mu == last'.args[3]
           r == last'.args[4]
           dC_db == (m.y - y_trg)
                    * phi_diff(m.z, m.phi_type, m.phi_param_a, m.phi_param_k,
                               m.phi_param_l)
       IN  /\ \A i \in 1..n.Nw :
                /\ m.weights[i] - n.weights[i]
                     = eta * (-last'.ret[i] + mu * hist.dw[i] + r)
                /\ m.w_diff_prev[i] = m.weights[i] - n.weights[i]
           /\ m.bias - n.bias = eta * (-dC_db + mu * hist.db + r)
           /\ m.b_diff_prev = m.bias - n.bias]_vars

\* A second backward call has run with mu = 1 on a non-zero previous delta.
C2_Witness ==
  /\ last.op = "update_backward"
  /\ hist.calls = 2
  /\ hist.momentum
  /\ last.args[3] = 1
  /\ \E i \in 1..NeuronNw : last.ret[i] # 0

\* C6: z and y change only in update_forward, the weights, the bias and the
\* previous deltas only in update_backward (train runs both).
C6_Frame ==
  [][/\ last'.op \in {"set_inputs", "set_phi_params", "update_backward"} =>
          /\ neurons'[1].z = neurons[1].z
          /\ neurons'[1].y = neurons[1].y
     /\ last'.op \in {"set_inputs", "set_phi_params", "update_forward"} =>
          /\ neurons'[1].weights = neurons[1].weights
          /\ neurons'[1].bias = neurons[1].bias
          /\ neurons'[1].w_diff_prev = neurons[1].w_diff_prev
          /\ neurons'[1].b_diff_prev = neurons[1].b_diff_prev]_vars

\* The inputs were rebound after a backward call that left non-zero deltas
\* and a non-zero output.
C6_Witness ==
  /\ last.op = "set_inputs"
  /\ neurons[1].y # 0
  /\ neurons[1].b_diff_prev # 0
  /\ \E i \in 1..NeuronNw : neurons[1].w_diff_prev[i] # 0

\* C10: a slot unset at every backward call so far, r being 0 in each: its
\* gradient component is 0, and its weight and previous delta are as
\* constructed.
C10_UnsetSlotFrozen ==
  \A i \in 1..NeuronNw :
    (hist.calls > 0 /\ hist.rzero /\ i \notin hist.used) =>
      /\ last.op \in {"update_backward", "train"} => last.ret[i] = 0
      /\ neurons[1].weights[i] = hist.w0[i]
      /\ neurons[1].w_diff_prev[i] = 0

\* Two backward calls with r = 0, the second with eta = 2 and mu = 1, have
\* run with slot 1 unset and slot 2 set, and moved the weight of slot 2.
C10_Witness ==
  /\ last.op = "update_backward"
  /\ hist.calls = 2 /\ hist.rzero
  /\ hist.used = {2}
  /\ last.args[2] = 2 /\ last.args[3] = 1
  /\ hist.momentum
  /\ neurons[1].weights[2] # hist.w0[2]

(***************************************************************************)
(* phi and phi_diff as pure functions: the arguments are drawn at the      *)
(* start, PhiEval evaluates both.                                          *)
(***************************************************************************)
PhiParams == -MaxParam..MaxParam

InitPhi ==
  /\ \E t \in PhiType, z \in -MaxAbs..MaxAbs, a \in PhiParams, k \in PhiParams,
        l \in PhiParams :
       phiCall = [type |-> t, z |-> z, a |-> a, k |-> k, l |-> l,
                  evaluated |-> FALSE, y |-> 0, dy |-> 0]
  /\ neurons = <<>>
  /\ layers = <<>>
  /\ status = "running"
  /\ last = NoCall
  /\ hist = NoHist
  /\ par = NoPar
  /\ ctor = NoCtor

PhiEval ==
  /\ ~phiCall.evaluated
  /\ phiCall' = [phiCall EXCEPT
       !.evaluated = TRUE,
       !.y = phi(phiCall.z, phiCall.type, phiCall.a, phiCall.k, phiCall.l),
       !.dy = phi_diff(phiCall.z, phiCall.type, phiCall.a, phiCall.k, phiCall.l)]
  /\ UNCHANGED <<neurons, layers, status, last, hist, par, ctor>>

NextPhi == PhiEval

SpecPhi == InitPhi /\ [][NextPhi]_vars

\* C8 as stated: for Parametric_ReLU, phi returns max(a*z, z) and phi_diff
\* returns a when z < 0 and 1 otherwise.
C8_AsStated ==
  (phiCall.evaluated /\ phiCall.type = "Parametric_ReLU") =>
    /\ phiCall.y = Max(phiCall.a * phiCall.z, phiCall.z)
    /\ phiCall.dy = IF phiCall.z < 0 THEN phiCall.a ELSE 1

\* C8, amended: for Parametric_ReLU, phi returns max(0, k*z + l), and
\* phi_diff returns 0 when z < -l/k and k otherwise (0 when k = 0); a is not
\* read.
C8_ParametricReLU ==
  (phiCall.evaluated /\ phiCall.type = "Parametric_ReLU") =>
    LET z == phiCall.z
        k == phiCall.k
        l == phiCall.l
    IN  /\ phiCall.y >= 0 /\ phiCall.y >= k * z + l
        /\ phiCall.y \in {0, k * z + l}
        /\ k > 0 => phiCall.dy = IF k * z + l < 0 THEN 0 ELSE k
        /\ k < 0 => phiCall.dy = IF k * z + l > 0 THEN 0 ELSE k
        /\ k = 0 => phiCall.dy = 0

\* Parametric_ReLU evaluated at z = 1 with k = 2, l = 1, a = 1: 3 and 2, where
\* max(a*z, z) is 1 and its slope 1.
C8_Witness ==
  /\ phiCall.evaluated /\ phiCall.type = "Parametric_ReLU"
  /\ phiCall.z = 1 /\ phiCall.k = 2 /\ phiCall.l = 1 /\ phiCall.a = 1
  /\ phiCall.y = 3 /\ phiCall.dy = 2

(***************************************************************************)
(* class NeuralLayer: construction.  Reading b[n_idx] past the end of b is *)
(* undefined: it yields some value, or faults.                             *)
(***************************************************************************)
\* The neurons the constructor builds; junk is what b[n_idx] reads past the
\* end of b.
NeuralLayer_ctor(w, b, af_type, junk) ==
  [No |-> Len(w), Ni |-> Len(w[1]),
   neurons |-> [n_idx \in 1..Len(w) |->
                  Neuron_ctor(w[n_idx],
                              IF n_idx <= Len(b) THEN b[n_idx] ELSE junk,
                              af_type)]]

SeqsUpTo(S, lo, hi) == UNION {[1..len -> S] : len \in lo..hi}

CtorRows == SeqsUpTo({1, 2}, 1, 2)

CtorWeights == SeqsUpTo(CtorRows, 1, MaxRows)

CtorBiases == SeqsUpTo({0, 1}, 0, MaxRows + 1)

InitCtor ==
  /\ ctor = NoCtor
  /\ neurons = <<>>
  /\ layers = <<>>
  /\ status = "running"
  /\ last = NoCall
  /\ hist = NoHist
  /\ par = NoPar
  /\ phiCall = NoPhiCall

LConstruct ==
  \E w \in CtorWeights, b \in CtorBiases, junk \in {-1, 0, 1} :
    /\ status = "running"
    /\ Len(b) < Len(w) \/ junk = 0
    /\ ctor' = [w |-> w, b |-> b, result |-> "constructed",
                defined |-> Len(b) >= Len(w),
                layer |-> NeuralLayer_ctor(w, b, "Linear", junk)]
    /\ UNCHANGED <<neurons, layers, status, last, hist, par, phiCall>>

LConstructCrash ==
  \E w \in CtorWeights, b \in CtorBiases :
    /\ status = "running"
    /\ Len(b) < Len(w)
    /\ ctor' = [w |-> w, b |-> b, result |-> "crashed", defined |-> FALSE]
    /\ status' = "crashed"
    /\ UNCHANGED <<neurons, layers, last, hist, par, phiCall>>

NextCtor == LConstruct \/ LConstructCrash

SpecCtor == InitCtor /\ [][NextCtor]_vars

\* C5: construction fails whenever the weight rows do not all have Ni
\* entries or the number of biases is not the number of rows No, so a
\* constructed layer has No neurons, all of input width Ni.  Stated of the
\* constructions whose behaviour is defined (no read past the end of b).
C5_CtorChecksShape ==
  (ctor.result = "constructed" /\ ctor.defined) =>
    /\ \A n \in 1..Len(ctor.w) : Len(ctor.w[n]) = Len(ctor.w[1])
    /\ Len(ctor.b) = Len(ctor.w)
    /\ Len(ctor.layer.neurons) = ctor.layer.No
    /\ \A n \in 1..ctor.layer.No : ctor.layer.neurons[n].Nw = ctor.layer.Ni

(***************************************************************************)
(* class NeuralLayer: operations.  A layer in the heap is [Ni, No,         *)
(* neurons], neurons being the ids of its Neuron objects in index order.   *)
(***************************************************************************)
LayerIds(l) == Range(l.neurons)

\* The assert of Neuron::set_inputs, for every neuron of the layer.
NeuralLayer_set_inputs_ok(heap, l, x) ==
  \A id \in LayerIds(l) : Len(x) = heap[id].Nw

NeuralLayer_set_inputs(heap, l, x) ==
  [id \in DOMAIN heap |->
     IF id \in LayerIds(l) THEN Neuron_set_inputs(heap[id], x) ELSE heap[id]]

NeuralLayer_set_phi_params(heap, l, a, k, ll) ==
  [id \in DOMAIN heap |->
     IF id \in LayerIds(l) THEN Neuron_set_phi_params(heap[id], a, k, ll)
     ELSE heap[id]]

NeuralLayer_inputs_readable(heap, l) ==
  \A id \in LayerIds(l) : Neuron_inputs_readable(heap[id])

\* A loop that stops one neuron short.
RECURSIVE layer_forward_from_short(_, _, _)
layer_forward_from_short(heap, l, n_idx) ==
  IF n_idx >= l.No THEN heap
  ELSE layer_forward_from_short(
         [heap EXCEPT ![l.neurons[n_idx]] = Neuron_update_forward(heap, l.neurons[n_idx])],
         l, n_idx + 1)

\* The loop of update_forward from neuron n_idx on.
RECURSIVE layer_forward_from(_, _, _)
layer_forward_from(heap, l, n_idx) ==
  IF n_idx > l.No THEN heap
  ELSE layer_forward_from(
         [heap EXCEPT ![l.neurons[n_idx]] = Neuron_update_forward(heap, l.neurons[n_idx])],
         l, n_idx + 1)

NeuralLayer_update_forward(heap, l) == layer_forward_from(heap, l, 1)

\* The loop of update_backward from neuron n_idx on: the heap and grad.
RECURSIVE layer_backward_from(_, _, _, _, _)
layer_backward_from(hg, l, n_idx, y_trg, emr) ==
  IF n_idx > l.No THEN hg
  ELSE LET id == l.neurons[n_idx]
           res == Neuron_update_backward(hg.heap, id, y_trg[n_idx],
                                         emr[1], emr[2], emr[3])
       IN  layer_backward_from(
             [heap |-> [hg.heap EXCEPT ![id] = res.neuron],
              grad |-> [hg.grad EXCEPT ![n_idx] = res.grad]],
             l, n_idx + 1, y_trg, emr)

\* The assert of NeuralLayer::update_backward.
NeuralLayer_update_backward_ok(l, y_trg) == Len(y_trg) = l.No

NeuralLayer_update_backward(heap, l, y_trg, eta, mu, r) ==
  layer_backward_from([heap |-> heap, grad |-> [n \in 1..l.No |-> <<>>]],
                      l, 1, y_trg, <<eta, mu, r>>)

NeuralLayer_train(heap, l, y_trg, eta, mu, r) ==
  NeuralLayer_update_backward(NeuralLayer_update_forward(heap, l), l, y_trg,
                              eta, mu, r)

NeuralLayer_output(l) == [n_idx \in 1..l.No |-> Input_output(l.neurons[n_idx])]

LayersInRange(heap, ls) ==
  \A i \in 1..Len(ls) : \A id \in LayerIds(ls[i]) : NeuronInRange(heap[id])

(***************************************************************************)
(* A layer of two neurons (ids 1 and 2) and its caller, who also owns a    *)
(* float (heap cell 3) an Input may point to.  After a layer call, `par`   *)
(* replays the call's per-neuron steps from the same start in any order.   *)
(***************************************************************************)
TheLayer == layers[1]

LayerSlotInputs ==
  {Input_default, Input_output(1), Input_output(2), Input_output(3)}
    \cup {Input_signal(s) : s \in Signals}

\* <<y_trg, eta, mu, r>>
LayerBackwardArgs == {<<<<0, 1>>, 1, 0, 0>>, <<<<1, 0>>, 1, 1, 1>>, <<<<1, 1>>, 2, 1, 0>>}

InitLayer ==
  /\ \E b \in {<<1, 0>>, <<0, 1>>}, t \in NeuronPhiTypes :
       LET obj == NeuralLayer_ctor(<<<<1, 2>>, <<2, 1>>>>, b, t, 0)
       IN  /\ neurons = obj.neurons \o <<[y |-> 1]>>
           /\ layers = <<[Ni |-> obj.Ni, No |-> obj.No,
                          neurons |-> [n \in 1..obj.No |-> n]]>>
  /\ status = "running"
  /\ last = NoCall
  /\ hist = NoHist
  /\ par = NoPar
  /\ ctor = NoCtor
  /\ phiCall = NoPhiCall

ParIdle == par.pending = {}

ParStart(op, args) ==
  [op |-> op, args |-> args, heap |-> neurons, pending |-> 1..TheLayer.No,
   grad |-> [n \in 1..TheLayer.No |-> <<>>], order |-> <<>>]

LSetInputs ==
  \E x \in [1..TheLayer.Ni -> LayerSlotInputs] :
    /\ CanCall /\ ParIdle
    /\ NeuralLayer_set_inputs_ok(neurons, TheLayer, x)
    /\ neurons' = NeuralLayer_set_inputs(neurons, TheLayer, x)
    /\ last' = Called("set_inputs", <<>>, <<>>)
    /\ par' = NoPar
    /\ UNCHANGED <<layers, status, hist, ctor, phiCall>>

LSetPhiParams ==
  \E p \in PhiParamChoices :
    /\ CanCall /\ ParIdle
    /\ neurons' = NeuralLayer_set_phi_params(neurons, TheLayer, p[1], p[2], p[3])
    /\ last' = Called("set_phi_params", <<>>, <<>>)
    /\ par' = NoPar
    /\ UNCHANGED <<layers, status, hist, ctor, phiCall>>

LCrash ==
  /\ CanCall /\ ParIdle
  /\ ~NeuralLayer_inputs_readable(neurons, TheLayer)
  /\ status' = "crashed"
  /\ UNCHANGED <<neurons, layers, last, hist, par, ctor, phiCall>>

LUpdateForward ==
  /\ CanCall /\ ParIdle
  /\ NeuralLayer_inputs_readable(neurons, TheLayer)
  /\ LET heap == NeuralLayer_update_forward(neurons, TheLayer)
     IN  /\ LayersInRange(heap, layers)
         /\ neurons' = heap
  /\ last' = Called("update_forward", <<>>, <<>>)
  /\ par' = ParStart("update_forward", <<>>)
  /\ UNCHANGED <<layers, status, hist, ctor, phiCall>>

LUpdateBackward ==
  \E a \in LayerBackwardArgs :
    /\ CanCall /\ ParIdle
    /\ NeuralLayer_inputs_readable(neurons, TheLayer)
    /\ NeuralLayer_update_backward_ok(TheLayer, a[1])
    /\ LET res == NeuralLayer_update_backward(neurons, TheLayer, a[1], a[2], a[3], a[4])
       IN  /\ LayersInRange(res.heap, layers)
           /\ neurons' = res.heap
           /\ last' = Called("update_backward", a, res.grad)
    /\ par' = ParStart("update_backward", a)
    /\ UNCHANGED <<layers, status, hist, ctor, phiCall>>

LTrain ==
  \E a \in LayerBackwardArgs :
    /\ CanCall /\ ParIdle
    /\ NeuralLayer_inputs_readable(neurons, TheLayer)
    /\ NeuralLayer_update_backward_ok(TheLayer, a[1])
    /\ LET res == NeuralLayer_train(neurons, TheLayer, a[1], a[2], a[3], a[4])
       IN  /\ LayersInRange(res.heap, layers)
           /\ neurons' = res.heap
           /\ last' = Called("train", a, res.grad)
    /\ par' = NoPar
    /\ UNCHANGED <<layers, status, hist, ctor, phiCall>>

\* One per-neuron step of the replay, for any neuron still to step.
LParStep ==
  \E n \in 1..TheLayer.No :
    /\ par.op # "none"
    /\ n \in par.pending
    /\ LET id == TheLayer.neurons[n]
       IN  IF par.op = "update_forward"
           THEN par' = [par EXCEPT
                  !.heap = [par.heap EXCEPT ![id] = Neuron_update_forward(par.heap, id)],
                  !.pending = par.pending \ {n},
                  !.order = Append(par.order, n)]
           ELSE LET res == Neuron_update_backward(par.heap, id, par.args[1][n],
                                                  par.args[2], par.args[3], par.args[4])
                IN  par' = [par EXCEPT
                      !.heap = [par.heap EXCEPT ![id] = res.neuron],
                      !.grad = [par.grad EXCEPT ![n] = res.grad],
                      !.pending = par.pending \ {n},
                      !.order = Append(par.order, n)]
    /\ UNCHANGED <<neurons, layers, status, last, hist, ctor, phiCall>>

NextLayer ==
  \/ LSetInputs
  \/ LSetPhiParams
  \/ LCrash
  \/ LUpdateForward
  \/ LUpdateBackward
  \/ LTrain
  \/ LParStep

SpecLayer == InitLayer /\ [][NextLayer]_vars

ParDone == par.op # "none" /\ par.pending = {}

\* The replay ended as the call itself did: same neurons, same gradient.
ParAgrees ==
  /\ par.heap = neurons
  /\ par.op = "update_backward" => par.grad = last.ret

\* No input of the layer points to the output of a neuron of the layer.
NoSiblingRefs ==
  \A id \in LayerIds(TheLayer) : \A i \in 1..Len(neurons[id].inputs) :
    neurons[id].inputs[i].dendrite_output \notin LayerIds(TheLayer)

RECURSIVE SumLen(_, _)
SumLen(objs, l) == IF l = 0 THEN 0 ELSE objs[l].No + SumLen(objs, l - 1)

RECURSIVE ConcatNeurons(_, _)
ConcatNeurons(objs, l) ==
  IF l = 0 THEN <<>> ELSE ConcatNeurons(objs, l - 1) \o objs[l].neurons

\* The wiring loop of the constructor from layer l_idx on.
RECURSIVE network_wire_from(_, _, _)
network_wire_from(heap, ls, l_idx) ==
  IF l_idx > Len(ls) THEN heap
  ELSE network_wire_from(
         NeuralLayer_set_inputs(heap, ls[l_idx], NeuralLayer_output(ls[l_idx - 1])),
         ls, l_idx + 1)

\* The heap and the layers after construction.
NeuralNetwork_ctor(w, b, af_type) ==
  LET objs == [l \in 1..Len(w) |-> NeuralLayer_ctor(w[l], b[l], af_type[l], 0)]
      ls == [l \in 1..Len(w) |->
               [Ni |-> objs[l].Ni, No |-> objs[l].No,
                neurons |-> [n \in 1..objs[l].No |-> SumLen(objs, l - 1) + n]]]
  IN  [heap |-> network_wire_from(ConcatNeurons(objs, Len(w)), ls, 2),
       layers |-> ls]

NeuralNetwork_set_inputs(heap, ls, x) == NeuralLayer_set_inputs(heap, ls[1], x)

\* A pass that steps the layers from the last to the first.
RECURSIVE network_forward_from_down(_, _, _)
network_forward_from_down(heap, ls, l_idx) ==
  IF l_idx > Len(ls) THEN heap
  ELSE NeuralLayer_update_forward(network_forward_from_down(heap, ls, l_idx + 1),
                                  ls[l_idx])

\* The loop of update_forward from layer l_idx on.
RECURSIVE network_forward_from(_, _, _)
network_forward_from(heap, ls, l_idx) ==
  IF l_idx > Len(ls) THEN heap
  ELSE network_forward_from(NeuralLayer_update_forward(heap, ls[l_idx]), ls,
                            l_idx + 1)

NeuralNetwork_update_forward(heap, ls) == network_forward_from(heap, ls, 1)

\* grad_flat after the rows from o_idx on have been added to acc.
RECURSIVE grad_flat_from(_, _, _, _)
grad_flat_from(grad, No, o_idx, acc) ==
  IF o_idx > No THEN acc
  ELSE grad_flat_from(grad, No, o_idx + 1,
                      [i_idx \in 1..Len(acc) |-> acc[i_idx] + grad[o_idx][i_idx]])

\* A grad_flat that assigns instead of adding: the last row.
NeuralNetwork_grad_flat_assign(grad, Ni, No) ==
  [i_idx \in 1..Ni |-> grad[No][i_idx]]

NeuralNetwork_grad_flat(grad, Ni, No) ==
  grad_flat_from(grad, No, 1, [i_idx \in 1..Ni |-> 0])

\* The loop of update_backward from layer l_idx down; st holds the heap, the
\* gradient of the layer stepped last, that layer `l`, and the layer calls
\* made so far.
RECURSIVE network_backward_from(_, _, _, _)
network_backward_from(st, ls, l_idx, emr) ==
  IF l_idx < 1 THEN st
  ELSE LET grad_flat == NeuralNetwork_grad_flat(st.grad, ls[st.l].Ni, ls[st.l].No)
           res == NeuralLayer_update_backward(st.heap, ls[l_idx], grad_flat,
                                              emr[1], emr[2], emr[3])
       IN  network_backward_from(
             [heap |-> res.heap, grad |-> res.grad, l |-> l_idx,
              calls |-> Append(st.calls,
                          [layer |-> l_idx, y_trg |-> grad_flat, grad |-> res.grad])],
             ls, l_idx - 1, emr)

\* The asserts on the way: y_trg has the last layer's width, and each
\* grad_flat the width of the layer it is handed to.
NeuralNetwork_update_backward_ok(ls, y_trg) ==
  /\ Len(y_trg) = ls[Len(ls)].No
  /\ \A l \in 1..(Len(ls) - 1) : ls[l + 1].Ni = ls[l].No

NeuralNetwork_update_backward(heap, ls, y_trg, eta, mu, r) ==
  LET Nl == Len(ls)
      res == NeuralLayer_update_backward(heap, ls[Nl], y_trg, eta, mu, r)
  IN  network_backward_from(
        [heap |-> res.heap, grad |-> res.grad, l |-> Nl,
         calls |-> <<[layer |-> Nl, y_trg |-> y_trg, grad |-> res.grad]>>],
        ls, Nl - 1, <<eta, mu, r>>)

NeuralNetwork_train(heap, ls, y_trg, eta, mu, r) ==
  NeuralNetwork_update_backward(NeuralNetwork_update_forward(heap, ls), ls,
                                y_trg, eta, mu, r)

NeuralNetwork_output(ls) == NeuralLayer_output(ls[Len(ls)])

(***************************************************************************)
(* A 1 -> 2 -> 1 network on one input: neuron 1 feeds neurons 2 and 3,     *)
(* which feed neuron 4.                                                    *)
(***************************************************************************)
NetWeights ==
  {<<<<<<1>>>>, <<<<1>>, <<1>>>>, <<<<1, 1>>>>>>,
   <<<<<<2>>>>, <<<<1>>, <<-1>>>>, <<<<1, 2>>>>>>}

NetBiases ==
  {<<<<0>>, <<0, 0>>, <<0>>>>,
   <<<<1>>, <<0, 1>>, <<-1>>>>}

NetPhiTypes == {<<"Linear", "Linear", "Linear">>, <<"Linear", "ReLU", "Linear">>}

\* What a caller may bind to the network's input: nothing, a signal, or the
\* network's own output.
NetSlotInputs ==
  {Input_default, Input_output(4)} \cup {Input_signal(s) : s \in Signals}

\* <<y_trg, eta, mu, r>>
NetBackwardArgs == {<<0>>, <<1>>} \X {0, 1} \X {0, 1} \X {0, 1}

InitNet ==
  /\ \E w \in NetWeights, b \in NetBiases, t \in NetPhiTypes :
       LET net == NeuralNetwork_ctor(w, b, t)
       IN  neurons = net.heap /\ layers = net.layers
  /\ status = "running"
  /\ last = NoCall
  /\ hist = NoHist
  /\ par = NoPar
  /\ ctor = NoCtor
  /\ phiCall = NoPhiCall

WSetInputs ==
  \E x \in [1..layers[1].Ni -> NetSlotInputs] :
    /\ CanCall
    /\ NeuralLayer_set_inputs_ok(neurons, layers[1], x)
    /\ neurons' = NeuralNetwork_set_inputs(neurons, layers, x)
    /\ last' = Called("set_inputs", <<>>, <<>>)
    /\ UNCHANGED <<layers, status, hist, par, ctor, phiCall>>

\* Before set_inputs the first layer reads inputs[i] of an empty vector.
WCrash ==
  /\ CanCall
  /\ ~NeuralLayer_inputs_readable(neurons, layers[1])
  /\ status' = "crashed"
  /\ UNCHANGED <<neurons, layers, last, hist, par, ctor, phiCall>>

WUpdateForward ==
  /\ CanCall
  /\ NeuralLayer_inputs_readable(neurons, layers[1])
  /\ LET heap == NeuralNetwork_update_forward(neurons, layers)
     IN  /\ LayersInRange(heap, layers)
         /\ neurons' = heap
  /\ last' = Called("update_forward", <<>>, <<>>)
  /\ UNCHANGED <<layers, status, hist, par, ctor, phiCall>>

WUpdateBackward ==
  \E a \in NetBackwardArgs :
    /\ CanCall
    /\ NeuralLayer_inputs_readable(neurons, layers[1])
    /\ NeuralNetwork_update_backward_ok(layers, a[1])
    /\ LET res == NeuralNetwork_update_backward(neurons, layers, a[1], a[2], a[3], a[4])
       IN  /\ LayersInRange(res.heap, layers)
           /\ neurons' = res.heap
           /\ last' = CalledLog("update_backward", a, res.grad, res.calls)
    /\ UNCHANGED <<layers, status, hist, par, ctor, phiCall>>

WTrain ==
  \E a \in NetBackwardArgs :
    /\ CanCall
    /\ NeuralLayer_inputs_readable(neurons, layers[1])
    /\ NeuralNetwork_update_backward_ok(layers, a[1])
    /\ LET res == NeuralNetwork_train(neurons, layers, a[1], a[2], a[3], a[4])
       IN  /\ LayersInRange(res.heap, layers)
           /\ neurons' = res.heap
           /\ last' = CalledLog("train", a, res.grad, res.calls)
    /\ UNCHANGED <<layers, status, hist, par, ctor, phiCall>>

NextNet ==
  \/ WSetInputs
  \/ WCrash
  \/ WUpdateForward
  \/ WUpdateBackward
  \/ WTrain

SpecNet == InitNet /\ [][NextNet]_vars

\* C3: update_backward runs each layer's update_backward once, in strictly
\* decreasing layer index; the last layer receives y_target, every earlier
\* layer the column sums of the gradient matrix the layer after it returned;
\* the value returned is layer 0's gradient matrix.
C3_BackwardChain ==
  last.op \in {"update_backward", "train"} =>
    LET Nl == Len(layers)
        log == last.log
    IN  /\ Len(log) = Nl
        /\ \A k \in 1..Nl : log[k].layer = Nl + 1 - k
        /\ log[1].y_trg = last.args[1]
        /\ \A k \in 1..(Nl - 1) :
             LET down == layers[log[k].layer]
             IN  log[k + 1].y_trg =
                   [i \in 1..down.Ni |->
                      SumOver(1..down.No, [o \in 1..down.No |-> log[k].grad[o][i]])]
        /\ last.ret = log[Nl].grad

\* An update_backward has run in which the two rows summed for layer 0 are
\* both non-zero and the gradient returned is non-zero.
C3_Witness ==
  /\ last.op = "update_backward"
  /\ Len(last.log) = 3
  /\ last.log[2].grad[1][1] # 0 /\ last.log[2].grad[2][1] # 0
  /\ last.log[2].grad[1][1] # last.log[2].grad[2][1]
  /\ last.ret[1][1] # 0

\* dC/dw of the first-layer neuron by the chain rule, C = (y_trg - y)^2 / 2, on
\* a heap that holds a forward pass.
Phi_diff_at(heap, id) ==
  phi_diff(heap[id].z, heap[id].phi_type, heap[id].phi_param_a,
           heap[id].phi_param_k, heap[id].phi_param_l)

ChainRuleGrad(heap, y_trg) ==
  LET dC_dz4 == (heap[4].y - y_trg) * Phi_diff_at(heap, 4)
      dC_dz2 == dC_dz4 * heap[4].weights[1] * Phi_diff_at(heap, 2)
      dC_dz3 == dC_dz4 * heap[4].weights[2] * Phi_diff_at(heap, 3)
      dC_dz1 == (dC_dz2 * heap[2].weights[1] + dC_dz3 * heap[3].weights[1])
                * Phi_diff_at(heap, 1)
  IN  [i \in 1..heap[1].Nw |->
         dC_dz1 * (IF heap[1].inputs[i].set
                     THEN SlotValue(heap[1].inputs[i], heap) ELSE 0)]

\* C4: in the 1 -> 2 -> 1 network the gradient update_backward returns for the
\* first-layer neuron is the chain-rule derivative of the cost with respect to
\* its weights: the sum over both downstream paths.  Stated of a backward pass
\* that follows a forward pass (train, or update_backward right after
\* update_forward).
C4_ChainRule ==
  [][(last'.op = "train" \/ (last'.op = "update_backward" /\ last.op = "update_forward")) =>
       LET heap == IF last'.op = "train"
                     THEN NeuralNetwork_update_forward(neurons, layers)
                     ELSE neurons
       IN  last'.ret[1] = ChainRuleGrad(heap, last'.args[1][1])]_vars

\* C9: after update_forward returns, every neuron of every layer i >= 1 holds
\* y = phi(bias + sum of weight[j] * y_j) over the outputs y_j the neurons of
\* layer i-1 hold after this same pass.
C9_ForwardFresh ==
  last.op = "update_forward" =>
    \A l \in 2..Len(layers) : \A id \in LayerIds(layers[l]) :
      LET n == neurons[id]
          up == layers[l - 1].neurons
      IN  n.y = phi(n.bias + SumOver(1..n.Nw,
                               [j \in 1..n.Nw |-> n.weights[j] * neurons[up[j]].y]),
                    n.phi_type, n.phi_param_a, n.phi_param_k, n.phi_param_l)

\* A forward pass has run after a backward pass changed the output neuron's
\* weights, and every layer holds a non-zero output.
C9_Witness ==
  /\ last.op = "update_forward"
  /\ \E i \in 1..2 : neurons[4].w_diff_prev[i] # 0
  /\ neurons[1].y # 0 /\ neurons[2].y # 0 /\ neurons[4].y # 0

====
